---------------------------- MODULE Spec2Model ----------------------------
(***************************************************************************)
(* The exchange protocol of contrib/externalProducers/externalProducers.h: *)
(* a caller (nominally ZSTD) hands a sequence_producer_parameters_t to an  *)
(* external sequence producer, which returns sequences and, optionally,    *)
(* the updated XXH64 state and the sequence statistics (histogram_t).      *)
(*                                                                         *)
(* The header holds the types, the status masks and the usage protocol     *)
(* (steps 1 to 6 of the SequenceProducerV2 comment).  XXH64_update, the    *)
(* sequence codes and the caller's handling of the result live in the zstd *)
(* library proper; they are modelled here from their documented behaviour. *)
(*                                                                         *)
(* The 64-bit lane arithmetic of XXH64 is kept uninterpreted: a lane is    *)
(* the sequence of the 8-byte words folded into it, so two lanes are equal *)
(* here only if they were produced by the same folds; equal states of the  *)
(* model are equal states of the program under any mixing function.        *)
(***************************************************************************)
EXTENDS Integers, Sequences, FiniteSets, TLC

\* ------------------------------------------------------------------ bounds

\* Production calls of one streaming session.
MaxCalls == 2
\* Largest outSeqsCapacity the caller supplies.
MaxCapacity == 2
\* Production calls of one mixed-version session (SpecMix).
MaxMixCalls == 2

\* Source buffer lengths the caller passes (srcSize).
SrcSizes == {0, 24, 40}

\* The input stream: the byte at stream position p (0-based).
StreamByte(p) == (p * 5 + 1) % 4

\* srcSize bytes of the stream from position start: the buffer src points to.
Bytes(start, len) == [i \in 1..len |-> StreamByte(start + i - 1)]

\* --------------------------------------------------------- status constants

\* Version 2 (externalProducers.h)
XXHASH_READY == 1
HISTOGRAM_READY == 2

\* Version 1 (the provider variant of the header)
XXHASH_REQUEST == 1
\* The availability mask of the checksum placed on the bit Version 2 uses.
XxhashAvailableOnReadyBit == XXHASH_READY

XXHASH_AVAILABLE == 2
HISTOGRAM_REQUEST == 4
HISTOGRAM_AVAILABLE == 8

\* status & mask, for a single-bit mask
HasBit(w, mask) == (w \div mask) % 2 = 1

\* status | mask, for a single-bit mask
SetBit(w, mask) == IF HasBit(w, mask) THEN w ELSE w + mask

\* ------------------------------------------------------------ XXH64 state

\* hw_xxh64_state_t: total_len, v[4], mem64[4] (as unsigned char[32]), memsize.
\* The reserved fields are never read or written and are left out.
StripeLen == 32

ZeroMem == [i \in 1..StripeLen |-> 0]

\* XXH64_reset: lanes at their seeded constants (the empty fold), the rest zero.
XXH64_reset == [total_len |-> 0, v |-> [i \in 0..3 |-> <<>>], mem64 |-> ZeroMem, memsize |-> 0]

\* XXH64_round(acc, input): acc folded with one 8-byte word.
XXH64_round(acc, word) == Append(acc, word)

\* One 32-byte stripe folded into the four lanes, lane i taking word i.
ConsumeStripe(v, stripe) ==
    [i \in 0..3 |-> XXH64_round(v[i], SubSeq(stripe, 8 * i + 1, 8 * i + 8))]

RECURSIVE ConsumeStripes(_, _)
ConsumeStripes(v, input) ==
    IF Len(input) < StripeLen THEN v
    ELSE ConsumeStripes(ConsumeStripe(v, SubSeq(input, 1, StripeLen)),
                        SubSeq(input, StripeLen + 1, Len(input)))

\* memcpy(((BYTE*)mem64) + at, bytes, Len(bytes))
MemCopy(mem, at, bytes) ==
    [i \in 1..StripeLen |->
        IF i > at /\ i <= at + Len(bytes) THEN bytes[i - at] ELSE mem[i]]

\* XXH64_update(statePtr, input, length)
XXH64_update(state, input) ==
    LET len == Len(input) IN
    IF state.memsize + len < StripeLen
    THEN \* fill in tmp buffer
         [state EXCEPT !.total_len = @ + len,
                       !.mem64 = MemCopy(@, state.memsize, input),
                       !.memsize = @ + len]
    ELSE LET fill == IF state.memsize > 0 THEN StripeLen - state.memsize ELSE 0
             mem1 == IF state.memsize > 0
                     THEN MemCopy(state.mem64, state.memsize, SubSeq(input, 1, fill))
                     ELSE state.mem64
             v1   == IF state.memsize > 0 THEN ConsumeStripe(state.v, mem1) ELSE state.v
             rest == SubSeq(input, fill + 1, len)
             v2   == ConsumeStripes(v1, rest)
             tail == SubSeq(rest, StripeLen * (Len(rest) \div StripeLen) + 1, Len(rest))
         IN [total_len |-> state.total_len + len,
             v         |-> v2,
             mem64     |-> MemCopy(mem1, 0, tail),
             memsize   |-> Len(tail)]

\* XXH64_digest: the lanes merged when 32 bytes or more were hashed (the seed
\* alone otherwise), the total length, and the total_len & 31 buffered bytes.
XXH64_digest(state) ==
    [acc  |-> IF state.total_len >= StripeLen THEN state.v ELSE [i \in 0..3 |-> <<>>],
     len  |-> state.total_len,
     tail |-> SubSeq(state.mem64, 1, state.total_len % StripeLen)]


\* -------------------------------------------------------------- histogram

\* Alphabet sizes of histogram_t's four arrays.
LiteralAlphabet == 256
LiteralsLengthAlphabet == 36
MatchLengthAlphabet == 53
OffsetAlphabet == 32

\* A ZSTD_Sequence with offset = 0 and matchLength = 0 carries literals only
\* (the last literals of a block) and has no length or offset codes.
IsDelimiter(seq) == seq.offset = 0 /\ seq.matchLength = 0

\* The sequences that carry a match.
RECURSIVE Matches(_)
Matches(seqs) ==
    IF seqs = <<>> THEN <<>>
    ELSE (IF IsDelimiter(Head(seqs)) THEN <<>> ELSE <<Head(seqs)>>) \o Matches(Tail(seqs))

\* Literals-length code of a literal length below 16, match-length code of a
\* match length below 35, offset code of an offset (highbit of offset + 3).
LLcode(litLength) == litLength

MLcode(matchLength) == matchLength - 3

RECURSIVE Highbit(_)
Highbit(n) == IF n <= 1 THEN 0 ELSE 1 + Highbit(n \div 2)

OFcode(offset) == Highbit(offset + 3)

\* The literal bytes of src that the sequences leave uncompressed, in order.
RECURSIVE LiteralsOf(_, _, _)
LiteralsOf(seqs, src, cursor) ==
    IF seqs = <<>> THEN <<>>
    ELSE SubSeq(src, cursor + 1, cursor + Head(seqs).litLength)
         \o LiteralsOf(Tail(seqs), src, cursor + Head(seqs).litLength + Head(seqs).matchLength)

\* Bytes of src the sequences cover.
RECURSIVE Covered(_)
Covered(seqs) ==
    IF seqs = <<>> THEN 0
    ELSE Head(seqs).litLength + Head(seqs).matchLength + Covered(Tail(seqs))

\* Frequency of each symbol 0..size-1 in a sequence of symbols.
CountSymbols(syms, size) ==
    [s \in 0..(size - 1) |-> Cardinality({i \in DOMAIN syms : syms[i] = s})]

\* The sequence statistics of seqs over src: the four arrays of histogram_t.
Tabulate(seqs, src) ==
    LET m == Matches(seqs) IN
    [literal              |-> CountSymbols(LiteralsOf(seqs, src, 0), LiteralAlphabet),
     literals_length_code |-> CountSymbols([i \in DOMAIN m |-> LLcode(m[i].litLength)],
                                           LiteralsLengthAlphabet),
     match_length_code    |-> CountSymbols([i \in DOMAIN m |-> MLcode(m[i].matchLength)],
                                           MatchLengthAlphabet),
     offset_code          |-> CountSymbols([i \in DOMAIN m |-> OFcode(m[i].offset)],
                                           OffsetAlphabet)]

\* Entry-wise sum of two histograms.
AddHistogram(a, b) ==
    [literal              |-> [s \in DOMAIN a.literal |-> a.literal[s] + b.literal[s]],
     literals_length_code |-> [s \in DOMAIN a.literals_length_code |->
                                  a.literals_length_code[s] + b.literals_length_code[s]],
     match_length_code    |-> [s \in DOMAIN a.match_length_code |->
                                  a.match_length_code[s] + b.match_length_code[s]],
     offset_code          |-> [s \in DOMAIN a.offset_code |->
                                  a.offset_code[s] + b.offset_code[s]]]

\* Sum of the entries of one array.
RECURSIVE SumRange(_, _, _)
SumRange(f, lo, hi) ==
    IF lo > hi THEN 0
    ELSE IF lo = hi THEN f[lo]
    ELSE LET mid == (lo + hi) \div 2
         IN SumRange(f, lo, mid) + SumRange(f, mid + 1, hi)

SumOf(f) == SumRange(f, 0, Cardinality(DOMAIN f) - 1)

\* A histogram_t with every counter holding c.
FilledHistogram(c) ==
    [literal              |-> [s \in 0..(LiteralAlphabet - 1) |-> c],
     literals_length_code |-> [s \in 0..(LiteralsLengthAlphabet - 1) |-> c],
     match_length_code    |-> [s \in 0..(MatchLengthAlphabet - 1) |-> c],
     offset_code          |-> [s \in 0..(OffsetAlphabet - 1) |-> c]]

\* ------------------------------------------------- uninitialised / undefined

\* What malloc'ed or abandoned storage may hold: a recognisable garbage
\* pattern.  Nothing below may depend on it.
PoisonHistogram == FilledHistogram(7)

PoisonState ==
    [total_len |-> 1, v |-> [i \in 0..3 |-> << <<9>> >>],
     mem64 |-> [i \in 1..StripeLen |-> 9], memsize |-> 33]

\* ------------------------------------------------------------- sequences

\* The sequences a producer may emit: a match after two literals, or three
\* trailing literals.
SeqMenu ==
    { [offset |-> 5, litLength |-> 2, matchLength |-> 3],
      [offset |-> 0, litLength |-> 3, matchLength |-> 0] }

\* Every output of at most cap sequences that parses a prefix of src.
ProducerOutputs(src, cap) ==
    {s \in UNION {[1..n -> SeqMenu] : n \in 0..cap} : Covered(s) <= Len(src)}

\* The caller's own sequence production: here the whole buffer as literals.
SoftwareSequences(src) ==
    IF src = <<>> THEN <<>>
    ELSE << [offset |-> 0, litLength |-> Len(src), matchLength |-> 0] >>

\* The distinguished return value: no sequences produced ((size_t)-1).
ZSTD_SEQUENCE_PRODUCER_ERROR == 0 - 1



\* ------------------------------------------------------------------ state

VARIABLES
    phase,        \* Idle, CallInvoked, ResultReturned or Decided
    callNo,       \* production calls completed in this session
    pos,          \* bytes of the stream consumed by completed calls
    callerState,  \* the caller's own XXH64 state of the input stream
    swState,      \* the XXH64 state of a session that never offloads (reference)
    params,       \* the sequence_producer_parameters_t, reused from call to call
    call,         \* the arguments of the call in progress
    prod,         \* the producer's side of the call in progress
    ret,          \* the value the call returned
    used,         \* what the caller took from the call
    mix           \* a session of a caller and a producer built from either header

vars == <<phase, callNo, pos, callerState, swState, params, call, prod, ret, used, mix>>

Fields == {"xxhash", "histogram"}

\* stale and staleLiterals record what the block held when the call was made.
NoCall == [src |-> <<>>, outSeqsCapacity |-> 0, seed |-> XXH64_reset,
           stale |-> 0, staleLiterals |-> 0]

NoProd == [done |-> FALSE, declined |-> FALSE, ret |-> 0, wrote |-> {}, outSeqs |-> <<>>]

NoUse == [checksum |-> "None", histogram |-> "None", reads |-> {}, consumed |-> 0,
          seqs |-> <<>>, stats |-> <<>>]

NoMix == [pc |-> "Off", caller |-> 0, producer |-> 0, word |-> 0,
          meant |-> {}, verdict |-> {}, n |-> 0]

\* Step 1: params = malloc(sizeof sequence_producer_parameters_t): the storage
\* is uninitialised.
Init ==
    /\ phase = "Idle"
    /\ callNo = 0
    /\ pos = 0
    /\ callerState = XXH64_reset
    /\ swState = XXH64_reset
    /\ params \in [status : {0, XXHASH_READY + HISTOGRAM_READY},
                   hw_xxh64_state : {PoisonState},
                   histogram : {FilledHistogram(0), PoisonHistogram}]
    /\ call = NoCall
    /\ prod = NoProd
    /\ ret = 0
    /\ used = NoUse
    /\ mix = NoMix

\* ----------------------------------------------------------------- caller

\* A call is started while another is outstanding on the same handle.
CallerMayInvokeAnytime == phase \in {"Idle", "CallInvoked"}

\* Step 4: the call is a plain function call; the caller makes the next one
\* only after this one has returned and its result has been taken.
CallerMayInvoke == phase = "Idle"

\* Step 2 left out: the status keeps what the last call left in it.
CallerKeepStatus(status) == status

\* Step 2: clears the field params->status = 0.
CallerClearStatus(status) == 0

\* Step 3: zstd_xxh64_state must contain the current XXH64 state of the input stream.
CallerSeed(block, state) == state

\* Steps 2 to 4: the caller clears the status, seeds the state and calls
\* SequenceProducerV2(state, outSeqs, outSeqsCapacity, src, srcSize, ..., params).
\* The histogram is not initialised.
CallerInvoke(srcSize, cap) ==
    /\ CallerMayInvoke
    /\ callNo < MaxCalls
    /\ params' = [params EXCEPT !.status = CallerClearStatus(@),
                                !.hw_xxh64_state = CallerSeed(@, callerState)]
    /\ call' = [src |-> Bytes(pos, srcSize), outSeqsCapacity |-> cap,
                seed |-> callerState, stale |-> params.status,
                staleLiterals |-> SumOf(params.histogram.literal)]
    /\ prod' = NoProd
    /\ phase' = "CallInvoked"
    /\ UNCHANGED <<callNo, pos, callerState, swState, ret, used, mix>>

\* --------------------------------------------------------------- producer

\* The producer hashes nothing and hands the state back as it got it.
ProducerXxhSkip(state, src) == state

\* The producer buffers the whole input without folding full stripes.
ProducerXxhBufferOnly(state, src) ==
    [state EXCEPT !.total_len = @ + Len(src), !.memsize = @ + Len(src)]

\* Step 3: the external producer will update this state as if calling
\* XXH64_update(src, srcSize).
ProducerXxhUpdate(state, src) == XXH64_update(state, src)

\* The producer adds this call's counts to what the histogram held.
ProducerHistogramAccumulate(old, seqs, src) == AddHistogram(old, Tabulate(seqs, src))

\* Step 2: the histogram_t will be overwritten; it holds the statistics of
\* the sequences the producer outputs.
ProducerHistogram(old, seqs, src) == Tabulate(seqs, src)

\* The producer reports both outputs whatever it wrote.
ProducerStatusAlways(status, wrote) ==
    SetBit(SetBit(status, XXHASH_READY), HISTOGRAM_READY)

\* Step 6: the producer confirms availability of the information by setting the
\* respective bits in params->status.
ProducerStatus(status, wrote) ==
    LET s1 == IF "xxhash" \in wrote THEN SetBit(status, XXHASH_READY) ELSE status
    IN IF "histogram" \in wrote THEN SetBit(s1, HISTOGRAM_READY) ELSE s1

\* A producer that may write one sequence more than the buffer holds.
ProducerOutputsOverrun(src, cap) == ProducerOutputs(src, cap + 1)

\* What the producer may put in outSeqs: at most outSeqsCapacity sequences.
ProducerChoices(src, cap) == ProducerOutputs(src, cap)

\* Step 5: the producer, in addition to outSeqs, returns the requested
\* information in *params.  It writes the fields in wrote and reports them; a
\* field it does not report is left as it was or (scribble) left undefined.
\* With declined it gives up on the sequences, whatever it left in outSeqs.
ProducerPopulate(wrote, out, declined, scribble) ==
    /\ phase = "CallInvoked"
    /\ ~prod.done
    /\ prod' = [done |-> TRUE,
                declined |-> declined,
                ret |-> IF declined THEN ZSTD_SEQUENCE_PRODUCER_ERROR ELSE Len(out),
                wrote |-> wrote,
                outSeqs |-> out]
    /\ params' =
         [status |-> ProducerStatus(params.status, wrote),
          hw_xxh64_state |->
              IF "xxhash" \in wrote THEN ProducerXxhUpdate(params.hw_xxh64_state, call.src)
              ELSE IF scribble THEN PoisonState ELSE params.hw_xxh64_state,
          histogram |->
              IF "histogram" \in wrote
              THEN ProducerHistogram(params.histogram, IF declined THEN <<>> ELSE out, call.src)
              ELSE IF scribble THEN PoisonHistogram ELSE params.histogram]
    /\ UNCHANGED <<phase, callNo, pos, callerState, swState, call, ret, used, mix>>

\* The call returns the number of sequences written, or the sentinel.
ProducerReturn ==
    /\ phase = "CallInvoked"
    /\ prod.done
    /\ ret' = prod.ret
    /\ phase' = "ResultReturned"
    /\ UNCHANGED <<callNo, pos, callerState, swState, params, call, prod, used, mix>>

\* ------------------------------------------------------ caller, after return

\* The caller takes the state from the block without looking at the status.
CallerTrustsXxhashUnchecked(status) == TRUE

\* The caller checks the bit via the mask before reading the field.
CallerTrustsXxhash(status) == HasBit(status, XXHASH_READY)

\* The caller checks the bit via the mask before reading the field.
CallerTrustsHistogram(status) == HasBit(status, HISTOGRAM_READY)

\* The sentinel: no sequences produced, fall back to the software path.
ProducerDeclined(r) == r = ZSTD_SEQUENCE_PRODUCER_ERROR

\* A count is taken only if it is one and within the capacity supplied.
ValidCount(r, cap) == ~ProducerDeclined(r) /\ r >= 0 /\ r <= cap

\* The caller takes whatever outSeqs holds, whatever the call returned.
CallerSequencesUnchecked(r, cap, out, src) == out

\* The sequences the caller goes on with: the r the producer wrote, or its
\* own production for the whole call.
CallerSequences(r, cap, out, src) ==
    IF ValidCount(r, cap) THEN SubSeq(out, 1, r) ELSE SoftwareSequences(src)

\* The caller inspects the result: the sequences, then one decision per field.
\* A histogram of sequences the caller does not use is not used either.
CallerDecide ==
    /\ phase = "ResultReturned"
    /\ LET valid    == ValidCount(ret, call.outSeqsCapacity)
           seqs     == CallerSequences(ret, call.outSeqsCapacity, prod.outSeqs, call.src)
           trustX   == CallerTrustsXxhash(params.status)
           trustH   == valid /\ CallerTrustsHistogram(params.status)
       IN /\ callerState' = IF trustX THEN params.hw_xxh64_state
                            ELSE XXH64_update(call.seed, call.src)
          /\ used' = [checksum  |-> IF trustX THEN "ChecksumTrusted" ELSE "ChecksumFallback",
                      histogram |-> IF trustH THEN "HistogramTrusted" ELSE "HistogramFallback",
                      reads     |-> (IF trustX THEN {"xxhash"} ELSE {})
                                    \cup (IF trustH THEN {"histogram"} ELSE {}),
                      consumed  |-> IF valid THEN ret ELSE 0,
                      seqs      |-> seqs,
                      stats     |-> IF trustH THEN params.histogram
                                    ELSE Tabulate(seqs, call.src)]
    /\ swState' = XXH64_update(swState, call.src)
    /\ phase' = "Decided"
    /\ UNCHANGED <<callNo, pos, params, call, prod, ret, mix>>

\* The call is over; the block is kept for the next call.
CallerFinish ==
    /\ phase = "Decided"
    /\ phase' = "Idle"
    /\ callNo' = callNo + 1
    /\ pos' = pos + Len(call.src)
    /\ call' = NoCall
    /\ prod' = NoProd
    /\ ret' = 0
    /\ used' = NoUse
    /\ UNCHANGED <<callerState, swState, params, mix>>

Next ==
    \/ \E srcSize \in SrcSizes, cap \in 0..MaxCapacity : CallerInvoke(srcSize, cap)
    \/ \E wrote \in SUBSET Fields, scribble \in BOOLEAN,
          out \in ProducerChoices(call.src, call.outSeqsCapacity) :
            ProducerPopulate(wrote, out, FALSE, scribble)
    \/ \E wrote \in SUBSET Fields, scribble \in BOOLEAN,
          out \in {o \in ProducerChoices(call.src, call.outSeqsCapacity) : Len(o) <= 1} :
            ProducerPopulate(wrote, out, TRUE, scribble)
    \/ ProducerReturn
    \/ CallerDecide
    \/ CallerFinish

Spec == Init /\ [][Next]_vars


\* ------------------------------------------- callers and producers, mixed

\* A caller built from one header with a producer built from either.  The
\* word is the first field of the block: status in Version 2,
\* request_response in Version 1; the rest of the block plays no part and
\* the variables of the session above stay as they start.  mix.meant holds the fields the producer
\* reports, mix.verdict the fields the caller takes for valid.

mainVars == <<phase, callNo, pos, callerState, swState, params, call, prod, ret, used>>

\* Version 1: the caller asks for each output with its request bit.
V1Request(req) ==
    (IF "xxhash" \in req THEN XXHASH_REQUEST ELSE 0)
    + (IF "histogram" \in req THEN HISTOGRAM_REQUEST ELSE 0)

\* Version 1: the provider answers with the availability bits.
V1Respond(word, wrote) ==
    LET w1 == IF "xxhash" \in wrote THEN SetBit(word, XXHASH_AVAILABLE) ELSE word
    IN IF "histogram" \in wrote THEN SetBit(w1, HISTOGRAM_AVAILABLE) ELSE w1

\* What a caller of each version reads from the word.
V1Decode(word) ==
    (IF HasBit(word, XXHASH_AVAILABLE) THEN {"xxhash"} ELSE {})
    \cup (IF HasBit(word, HISTOGRAM_AVAILABLE) THEN {"histogram"} ELSE {})

V2Decode(word) ==
    (IF CallerTrustsXxhash(word) THEN {"xxhash"} ELSE {})
    \cup (IF CallerTrustsHistogram(word) THEN {"histogram"} ELSE {})

InitMix ==
    /\ phase = "Idle"
    /\ callNo = 0
    /\ pos = 0
    /\ callerState = XXH64_reset
    /\ swState = XXH64_reset
    /\ params = [status |-> 0, hw_xxh64_state |-> XXH64_reset, histogram |-> <<>>]
    /\ call = NoCall
    /\ prod = NoProd
    /\ ret = 0
    /\ used = NoUse
    /\ mix \in [pc : {"Idle"}, caller : {1, 2}, producer : {1, 2},
                word : {0, XXHASH_AVAILABLE + HISTOGRAM_AVAILABLE},
                meant : {{}}, verdict : {{}}, n : {0}]

\* The caller prepares the word and calls: a Version 2 caller clears it, a
\* Version 1 caller sets the request bits of the outputs it wants.
MixCallerPrepare(req) ==
    /\ mix.pc = "Idle"
    /\ mix.n < MaxMixCalls
    /\ mix.caller = 2 => req = {}
    /\ mix' = [mix EXCEPT !.pc = "Invoked",
                          !.word = IF mix.caller = 2 THEN CallerClearStatus(@)
                                   ELSE V1Request(req)]
    /\ UNCHANGED mainVars

\* The producer reports the fields it wrote with the bits of its own header,
\* set in the word as the caller prepared it.  A Version 1 provider may
\* report an output the caller did not request.
MixProducerRespond(wrote) ==
    /\ mix.pc = "Invoked"
    /\ mix' = [mix EXCEPT !.pc = "Returned",
                          !.meant = wrote,
                          !.word = IF mix.producer = 2 THEN ProducerStatus(@, wrote)
                                   ELSE V1Respond(@, wrote)]
    /\ UNCHANGED mainVars

\* The caller decodes the word with the masks of its own header.
MixCallerDecode ==
    /\ mix.pc = "Returned"
    /\ mix' = [mix EXCEPT !.pc = "Decoded",
                          !.verdict = IF mix.caller = 2 THEN V2Decode(mix.word)
                                      ELSE V1Decode(mix.word)]
    /\ UNCHANGED mainVars

\* The block is kept for the next call.
MixCallerFinish ==
    /\ mix.pc = "Decoded"
    /\ mix' = [mix EXCEPT !.pc = "Idle", !.meant = {}, !.verdict = {}, !.n = @ + 1]
    /\ UNCHANGED mainVars

NextMix ==
    \/ \E req \in SUBSET Fields : MixCallerPrepare(req)
    \/ \E wrote \in SUBSET Fields : MixProducerRespond(wrote)
    \/ MixCallerDecode
    \/ MixCallerFinish

SpecMix == InitMix /\ [][NextMix]_vars


\* ----------------------------------------------------------------- claims

\* The call has returned and its result has not been discarded yet.
Returned == phase \in {"ResultReturned", "Decided"}

\* The fields the status reports (Version 2).
Reported == {f \in Fields : HasBit(params.status, IF f = "xxhash" THEN XXHASH_READY
                                                   ELSE HISTOGRAM_READY)}

\* The sequences the producer emitted in this call.
Emitted == IF prod.declined THEN <<>> ELSE prod.outSeqs

\* C1: after a production call returns, an availability bit is set in
\* params->status only for a field the producer wrote during that call:
\* XXHASH_READY implies the state in the block is the seeded state updated
\* as by XXH64_update(src, srcSize), HISTOGRAM_READY implies the four arrays
\* were written by this call.
C1_OnlyWrittenReported ==
    Returned =>
        /\ HasBit(params.status, XXHASH_READY) =>
              /\ "xxhash" \in prod.wrote
              /\ params.hw_xxh64_state = XXH64_update(call.seed, call.src)
        /\ HasBit(params.status, HISTOGRAM_READY) =>
              /\ "histogram" \in prod.wrote
              /\ params.histogram = Tabulate(Emitted, call.src)

\* A call on a reused block whose status held both bits before the call, and
\* which reports the checksum only, over a histogram left undefined.
C1_Witness ==
    /\ phase = "ResultReturned"
    /\ callNo = 1
    /\ call.stale = XXHASH_READY + HISTOGRAM_READY
    /\ params.status = XXHASH_READY
    /\ params.histogram = PoisonHistogram
    /\ Len(call.src) = 40

\* C2: the caller reads the checksum state of the block only if the checksum
\* bit is set in the returned status, and the histogram only if the histogram
\* bit is set; with a bit unset, its checksum and its histogram are those of
\* its own routines, whatever the block holds.
C2_UnsetNotRead ==
    phase = "Decided" =>
        /\ used.reads \subseteq Reported
        /\ ~HasBit(params.status, XXHASH_READY) =>
              callerState = XXH64_update(call.seed, call.src)
        /\ ~HasBit(params.status, HISTOGRAM_READY) =>
              used.stats = Tabulate(used.seqs, call.src)

\* No bit set, the state and the histogram of the block both left undefined.
C2_Witness ==
    /\ phase = "Decided"
    /\ params.status = 0
    /\ params.hw_xxh64_state = PoisonState
    /\ params.histogram = PoisonHistogram
    /\ Len(call.src) = 40
    /\ Len(used.seqs) = 2

InputSoFar == Bytes(0, IF phase = "Decided" THEN pos + Len(call.src) ELSE pos)

\* C4: for every split of the input into successive buffers and every mix of
\* offloaded and software-updated calls, the caller's checksum state after
\* each call is that of the session that hashes the same buffers in software
\* only, and its digest is that of the whole input hashed in one update.
C4_RoundTrip ==
    /\ callerState = swState
    /\ XXH64_digest(callerState) = XXH64_digest(XXH64_update(XXH64_reset, InputSoFar))

\* A second call taken from the producer, continuing a partly filled buffer;
\* the state differs from that of the one-update hash in the bytes left
\* behind in mem64, the digest does not.
C4_Witness ==
    /\ phase = "Decided"
    /\ callNo = 1
    /\ used.checksum = "ChecksumTrusted"
    /\ call.seed.memsize = 24
    /\ Len(call.src) = 40
    /\ callerState # XXH64_update(XXH64_reset, InputSoFar)

\* C5: with the histogram bit set, the entries of each of the four arrays sum
\* to the number of symbols of that class among the sequences this call
\* emitted, whatever the histogram held before the call.
C5_HistogramSums ==
    (Returned /\ HasBit(params.status, HISTOGRAM_READY)) =>
        /\ SumOf(params.histogram.literal) = Len(LiteralsOf(Emitted, call.src, 0))
        /\ SumOf(params.histogram.literals_length_code) = Len(Matches(Emitted))
        /\ SumOf(params.histogram.match_length_code) = Len(Matches(Emitted))
        /\ SumOf(params.histogram.offset_code) = Len(Matches(Emitted))

\* A call on a block whose histogram held counts before the call, emitting a
\* match and trailing literals.
C5_Witness ==
    /\ phase = "ResultReturned"
    /\ HasBit(params.status, HISTOGRAM_READY)
    /\ call.staleLiterals > 0
    /\ Len(Emitted) = 2
    /\ Len(Matches(Emitted)) = 1
    /\ SumOf(params.histogram.literal) = 5

\* C6: the sentinel is none of the counts 0..outSeqsCapacity, and after it
\* the caller consumes none of outSeqs and goes on with its own sequences,
\* statistics and checksum: the result of the call is that of a call with no
\* producer.
C6_SentinelFallback ==
    /\ ZSTD_SEQUENCE_PRODUCER_ERROR \notin 0..call.outSeqsCapacity
    /\ Returned => (ret = ZSTD_SEQUENCE_PRODUCER_ERROR <=> prod.declined)
    /\ (phase = "Decided" /\ ret = ZSTD_SEQUENCE_PRODUCER_ERROR) =>
          /\ used.consumed = 0
          /\ used.seqs = SoftwareSequences(call.src)
          /\ used.stats = Tabulate(SoftwareSequences(call.src), call.src)
          /\ "histogram" \notin used.reads
          /\ callerState = XXH64_update(call.seed, call.src)

\* The producer declines, leaving a sequence in outSeqs and both bits set.
C6_Witness ==
    /\ phase = "Decided"
    /\ ret = ZSTD_SEQUENCE_PRODUCER_ERROR
    /\ Len(prod.outSeqs) = 1
    /\ params.status = XXHASH_READY + HISTOGRAM_READY
    /\ Len(call.src) = 24

\* The word as a caller built from the header the producer was not built
\* from decodes it.
OtherDecode == IF mix.producer = 1 THEN V2Decode(mix.word) ELSE V1Decode(mix.word)

\* The producer has answered and has set at least one bit of the word.
ProducerSetABit == mix.pc \in {"Returned", "Decoded"} /\ mix.meant # {}

\* C7, as claimed: the two sets of masks cannot be used for one another:
\* every word in which a producer of one version has set a bit is decoded by
\* a caller of the other version into a different pair of verdicts
\* (checksum valid, histogram valid) than the producer meant.
C7_EveryWordDiffers == ProducerSetABit => OtherDecode # mix.meant

\* The Version 1 words that the Version 2 masks decode as Version 1 means
\* them: XXHASH_REQUEST with both availability bits, with or without
\* HISTOGRAM_REQUEST (0xB, 0xF).
V1WordsReadAlike ==
    { XXHASH_REQUEST + XXHASH_AVAILABLE + HISTOGRAM_AVAILABLE,
      XXHASH_REQUEST + XXHASH_AVAILABLE + HISTOGRAM_REQUEST + HISTOGRAM_AVAILABLE }

\* C7, amended: every word in which a producer of one version has set a bit
\* is decoded by a caller of the other version into a different pair of
\* verdicts than the producer meant, except the Version 1 words 0xB and 0xF;
\* in a session that mixes the versions the caller never gets the verdicts
\* the producer meant.
C7_VersionsDistinct ==
    /\ (ProducerSetABit /\ ~(mix.producer = 1 /\ mix.word \in V1WordsReadAlike)) =>
          OtherDecode # mix.meant
    /\ (mix.pc = "Decoded" /\ mix.caller # mix.producer /\ mix.meant # {}) =>
          mix.verdict # mix.meant

\* A Version 2 producer reports the histogram to a Version 1 caller that
\* asked for both outputs: the caller takes the checksum for available.
C7_Witness ==
    /\ mix.pc = "Decoded"
    /\ mix.caller = 1
    /\ mix.producer = 2
    /\ mix.meant = {"histogram"}
    /\ mix.word = XXHASH_REQUEST + HISTOGRAM_REQUEST + HISTOGRAM_READY
    /\ mix.verdict = {"xxhash"}

\* One step of the protocol.
PhaseStep ==
    /\ <<phase, phase'>> \in { <<"Idle", "CallInvoked">>,
                               <<"CallInvoked", "CallInvoked">>,
                               <<"CallInvoked", "ResultReturned">>,
                               <<"ResultReturned", "Decided">>,
                               <<"Decided", "Idle">> }
    /\ phase = "CallInvoked" =>
          /\ UNCHANGED <<call, callNo, pos, callerState, used>>
          /\ params' # params => (~prod.done /\ prod'.done)
    /\ params' # params => phase \in {"Idle", "CallInvoked"}
    /\ phase' = "Decided" =>
          /\ used'.checksum \in {"ChecksumTrusted", "ChecksumFallback"}
          /\ used'.histogram \in {"HistogramTrusted", "HistogramFallback"}
    /\ phase' # "Decided" => used' = NoUse

\* C8: every call passes through Idle, CallInvoked, ResultReturned, one
\* decision per field, then Idle, in that order; while a call is in
\* CallInvoked the caller writes nothing to the block and starts no second
\* call, and the block is changed by the producer only.
C8_PhaseOrder == [][PhaseStep]_vars

\* The second call of a session, decided differently for the two fields.
C8_Witness ==
    /\ phase = "Decided"
    /\ callNo = 1
    /\ used.checksum = "ChecksumTrusted"
    /\ used.histogram = "HistogramFallback"

\* C9: on a reused block, the availability bits the caller finds after a
\* call are exactly those the producer set during that call, whatever bits
\* an earlier call left; the block the producer is handed holds a cleared
\* status and the caller's current checksum state.
C9_FreshBits ==
    /\ Returned => (params.status \in 0..3 /\ Reported = prod.wrote)
    /\ (phase = "CallInvoked" /\ ~prod.done) =>
          (params.status = 0 /\ params.hw_xxh64_state = callerState)

\* A call that reports nothing on a block an earlier call left both bits in.
C9_Witness ==
    /\ phase = "ResultReturned"
    /\ callNo = 1
    /\ call.stale = XXHASH_READY + HISTOGRAM_READY
    /\ prod.wrote = {}
    /\ params.status = 0

\* C10: the caller's checksum state always has memsize at most 31 and equal
\* to total_len mod 32, each update adds exactly the length of its input to
\* total_len, and a first update of 40 bytes gives total_len = 40 and
\* memsize = 8, the last 8 bytes buffered and one stripe folded.
C10_Carry ==
    /\ callerState.memsize <= StripeLen - 1
    /\ callerState.memsize = callerState.total_len % StripeLen
    /\ callerState.total_len = Len(InputSoFar)
    /\ phase = "Decided" =>
          callerState.total_len = call.seed.total_len + Len(call.src)
    /\ (phase = "Decided" /\ callNo = 0 /\ Len(call.src) = 40) =>
          /\ callerState.total_len = 40
          /\ callerState.memsize = 8
          /\ SubSeq(callerState.mem64, 1, 8) = Bytes(32, 8)
          /\ \A i \in 0..3 : callerState.v[i] = << Bytes(8 * i, 8) >>

\* The first update, of 40 bytes, done by the producer.
C10_Witness ==
    /\ phase = "Decided"
    /\ callNo = 0
    /\ Len(call.src) = 40
    /\ used.checksum = "ChecksumTrusted"
    /\ callerState.memsize = 8

=============================================================================
